---- MODULE Spec2Model ----
(***************************************************************************)
(* godb: copy-on-write B+tree (internal/storage/index/btree/btree.go) and  *)
(* the KV store that commits it to a file (kv.go).                         *)
(*                                                                         *)
(* A byte string is modelled run-length encoded: [b |-> c, n |-> l] is the *)
(* byte c repeated l times, so that lengths up to 1000 / 3000 bytes are    *)
(* exact while the alphabet stays small.  A node is [btype, kvs] where kvs *)
(* is the sequence of its (ptr, key, val) entries; the offsets array of    *)
(* the page is the running sum of the entry sizes.  Indices are 0-based as *)
(* in the source; KvAt converts.                                           *)
(***************************************************************************)
EXTENDS Integers, Sequences, FiniteSets, TLC

\* ---------------------------------------------------------------- constants
HEADER == 4
BT_PAGE_SIZE == 4096
BT_MAX_KEY_SIZE == 1000
BT_MAX_VAL_SIZE == 3000
BN_NODE == 1
BN_LEAF == 2
MaxUint16 == 65535

\* ------------------------------------------------------------- byte strings
Bytes(c, l) == [b |-> c, n |-> l]
Nil == [b |-> 0, n |-> 0]

\* bytes.Compare on run-length encoded strings
Compare(x, y) ==
    IF x = y THEN 0
    ELSE IF x.n = 0 THEN -1
    ELSE IF y.n = 0 THEN 1
    ELSE IF x.b < y.b THEN -1
    ELSE IF x.b > y.b THEN 1
    ELSE IF x.n < y.n THEN -1 ELSE 1

Less(x, y) == Compare(x, y) < 0

\* ------------------------------------------------------------------- nodes
\* bad marks a buffer whose construction hit a failed assert / slice panic
Node(t, s) == [btype |-> t, kvs |-> s, bad |-> FALSE]
BadNode == [btype |-> 0, kvs |-> <<>>, bad |-> TRUE]
KV(p, k, v) == [ptr |-> p, key |-> k, val |-> v]

nkeys(node) == Len(node.kvs)
KvAt(node, idx) == node.kvs[idx + 1]
getPtr(node, idx) == KvAt(node, idx).ptr
\* index 0 of a node with no keys reads the zero bytes after the header: a
\* zero-length key and value
getKey(node, idx) == IF idx < nkeys(node) THEN KvAt(node, idx).key ELSE Nil
getVal(node, idx) == IF idx < nkeys(node) THEN KvAt(node, idx).val ELSE Nil

EntrySize(e) == 4 + e.key.n + e.val.n

RECURSIVE SumSizes(_)
SumSizes(s) == IF s = <<>> THEN 0 ELSE EntrySize(Head(s)) + SumSizes(Tail(s))

\* offset of the end of entry idx-1 within the payload area
getOffset(node, idx) == SumSizes(SubSeq(node.kvs, 1, idx))

kvPos(node, idx) == HEADER + 8 * nkeys(node) + 2 * nkeys(node) + getOffset(node, idx)

nbytes(node) == kvPos(node, nkeys(node))

\* entries srcOld .. srcOld+n-1 of a node (what nodeAppendRange copies)
Range(node, srcOld, n) == SubSeq(node.kvs, srcOld + 1, srcOld + n)

RECURSIVE LookupFrom(_, _, _, _)
LookupFrom(node, key, i, found) ==
    IF i >= nkeys(node) THEN found
    ELSE LET cmp == Compare(getKey(node, i), key)
             f == IF cmp <= 0 THEN i ELSE found
         IN IF cmp >= 0 THEN f ELSE LookupFrom(node, key, i + 1, f)

nodeLookupLE(node, key) == LookupFrom(node, key, 1, 0)

\* A buffer under construction: the entries appended so far, and whether a
\* failed assert or slice panic was hit on the way.
NewBuf == [kvs |-> <<>>, bad |-> FALSE]
BadBuf == [kvs |-> <<>>, bad |-> TRUE]

\* nodeAppendRange(new, old, dstNew, srcOld, n); dstNkeys is new.nkeys()
nodeAppendRange(buf, dstNkeys, old, dstNew, srcOld, n) ==
    IF buf.bad THEN buf
    ELSE IF ~(srcOld + n <= nkeys(old)) \/ ~(dstNew + n <= dstNkeys) THEN BadBuf
    ELSE IF dstNew # Len(buf.kvs) THEN BadBuf
    ELSE [buf EXCEPT !.kvs = @ \o Range(old, srcOld, n)]

\* nodeAppendKV(new, idx, ptr, key, val); setPtr asserts idx < nkeys
nodeAppendKV(buf, dstNkeys, idx, ptr, key, val) ==
    IF buf.bad THEN buf
    ELSE IF ~(idx < dstNkeys) \/ idx # Len(buf.kvs) THEN BadBuf
    ELSE [buf EXCEPT !.kvs = @ \o <<KV(ptr, key, val)>>]

\* the finished buffer, read as a node with header (t, n)
Built(t, buf, n) == IF buf.bad \/ Len(buf.kvs) # n THEN BadNode ELSE Node(t, buf.kvs)

leafInsert(old, idx, key, val) ==
    LET n == nkeys(old) + 1
        b1 == nodeAppendRange(NewBuf, n, old, 0, 0, idx)
        b2 == nodeAppendKV(b1, n, idx, 0, key, val)
        b3 == nodeAppendRange(b2, n, old, idx + 1, idx, nkeys(old) - idx)
    IN Built(BN_LEAF, b3, n)

\* leafUpdate that keeps the old entry and puts the new pair behind it
leafUpdateKeep(old, idx, key, val) == leafInsert(old, idx + 1, key, val)

leafUpdate(old, idx, key, val) ==
    LET n == nkeys(old)
        b1 == nodeAppendRange(NewBuf, n, old, 0, 0, idx)
        b2 == nodeAppendKV(b1, n, idx, 0, key, val)
        b3 == IF idx + 1 < nkeys(old)
              THEN nodeAppendRange(b2, n, old, idx + 1, idx + 1, nkeys(old) - idx - 1)
              ELSE b2
    IN Built(BN_LEAF, b3, n)

leafDelete(old, idx) ==
    IF ~(idx < nkeys(old)) THEN BadNode
    ELSE LET n == nkeys(old) - 1
             b1 == nodeAppendRange(NewBuf, n, old, 0, 0, idx)
             b2 == IF idx + 1 < nkeys(old)
                   THEN nodeAppendRange(b1, n, old, idx, idx + 1, nkeys(old) - idx - 1)
                   ELSE b1
         IN Built(BN_LEAF, b2, n)

nodeMerge(left, right) ==
    IF left.btype # right.btype THEN BadNode
    ELSE LET n == nkeys(left) + nkeys(right)
             b1 == nodeAppendRange(NewBuf, n, left, 0, 0, nkeys(left))
             b2 == nodeAppendRange(b1, n, right, nkeys(left), 0, nkeys(right))
         IN Built(left.btype, b2, n)

nodeReplace2Kid(old, idx, ptr, key) ==
    LET n == nkeys(old) - 1
        b1 == nodeAppendRange(NewBuf, n, old, 0, 0, idx)
        b2 == nodeAppendKV(b1, n, idx, ptr, key, Nil)
        b3 == IF idx + 2 < nkeys(old)
              THEN nodeAppendRange(b2, n, old, idx + 1, idx + 2, nkeys(old) - idx - 2)
              ELSE b2
    IN Built(BN_NODE, b3, n)

\* ------------------------------------------------------------------- split
\* bytes needed to copy count entries starting at from; counts the header and
\* (count+1) two-byte offsets, not the 8-byte pointers
leafSizeFor(old, from, count) ==
    IF count = 0 THEN HEADER + (count + 1) * 2
    ELSE HEADER + (count + 1) * 2
         + ((IF from + count < nkeys(old) THEN kvPos(old, from + count) ELSE nbytes(old))
            - kvPos(old, from))

Max2(a, b) == IF b > a THEN b ELSE a

\* the loop of nodeSplit2 from index i on, carrying (bestIdx, bestMax)
RECURSIVE SplitScan(_, _, _, _)
\* one iteration, ls and rs being the two sizes computed for index i
SplitStep(old, i, bestIdx, bestMax, ls, rs) ==
    IF ls > BT_PAGE_SIZE \/ rs > BT_PAGE_SIZE THEN SplitScan(old, i + 1, bestIdx, bestMax)
    ELSE IF Max2(ls, rs) < bestMax THEN SplitScan(old, i + 1, i, Max2(ls, rs))
    ELSE SplitScan(old, i + 1, bestIdx, bestMax)

SplitScan(old, i, bestIdx, bestMax) ==
    IF i >= nkeys(old) THEN bestIdx
    ELSE SplitStep(old, i, bestIdx, bestMax,
                   leafSizeFor(old, 0, i), leafSizeFor(old, i, nkeys(old) - i))

\* the tail of nodeSplit2 once bestIdx is known: <<left, right>>
SplitAt(old, bestIdx) ==
    IF ~(bestIdx > 0) THEN << BadNode, BadNode >>
    ELSE << Built(old.btype, nodeAppendRange(NewBuf, bestIdx, old, 0, 0, bestIdx), bestIdx),
            Built(old.btype,
                  nodeAppendRange(NewBuf, nkeys(old) - bestIdx, old, 0, bestIdx,
                                  nkeys(old) - bestIdx),
                  nkeys(old) - bestIdx) >>

\* nodeSplit2: <<left, right>>; leafSizeFor asserts that old is a leaf
nodeSplit2(old) ==
    IF nkeys(old) > 1 /\ old.btype # BN_LEAF THEN << BadNode, BadNode >>
    ELSE SplitAt(old, SplitScan(old, 1, 0, MaxUint16))

\* nodeSplit3 after the second nodeSplit2: lm = <<leftleft, middle>>
Split3Second(lm, right) ==
    IF lm[1].bad \/ ~(nbytes(lm[1]) <= BT_PAGE_SIZE) THEN << BadNode >>
    ELSE << lm[1], lm[2], right >>

\* nodeSplit3 after the first nodeSplit2: lr = <<left, right>>
Split3First(lr) ==
    IF lr[1].bad THEN << BadNode >>
    ELSE IF nbytes(lr[1]) <= BT_PAGE_SIZE THEN lr
    ELSE Split3Second(nodeSplit2(lr[1]), lr[2])

\* nodeSplit3: the sequence of 1..3 pieces; <<BadNode>> when an assert fails
nodeSplit3(old) ==
    IF old.bad THEN << BadNode >>
    ELSE IF nbytes(old) <= BT_PAGE_SIZE THEN << old >>
    ELSE Split3First(nodeSplit2(old))

\* -------------------------------------------------------------- page store
\* The tree reaches its pages through three hooks (BT.get, BT.new, BT.del).
\* A store st carries everything the hooks read or change:
\*   kind    "C" for the in-memory store of NewC
\*   root    tree.root
\*   pages   the map of NewC
\*   taken   addresses of buffers alive during the running operation
\*   handed  the nodes the running operation has passed to BT.new
\*   panic   an assert failed or the runtime panicked: the process halts
\*   twice   NewC.del was called with an address that is not a live page
CStore(r, pg) ==
    [kind |-> "C", root |-> r, pages |-> pg, taken |-> DOMAIN pg, handed |-> {},
     panic |-> FALSE, twice |-> FALSE]

Halt(st) == [st EXCEPT !.panic = TRUE]

\* the address of a fresh buffer: one no live page has
FreshPtr(st) == CHOOSE p \in 1..(Cardinality(st.taken) + 1) : p \notin st.taken

\* NewC.get
cGet(st, ptr) == IF ptr \in DOMAIN st.pages THEN st.pages[ptr] ELSE BadNode

PutPage(st, ptr, node) ==
    << [st EXCEPT !.pages = (ptr :> node) @@ @, !.taken = @ \cup {ptr}], ptr >>

\* NewC.new: <<store, ptr>>
cNew(st, node) ==
    IF node.bad \/ ~(nbytes(node) <= BT_PAGE_SIZE) THEN << Halt(st), 0 >>
    ELSE PutPage(st, FreshPtr(st), node)

Hand(st, node) == IF node.bad THEN st ELSE [st EXCEPT !.handed = @ \cup {node}]

\* NewC.del
cDel(st, ptr) ==
    IF ptr \notin DOMAIN st.pages THEN [Halt(st) EXCEPT !.twice = TRUE]
    ELSE [st EXCEPT !.pages = [q \in DOMAIN @ \ {ptr} |-> @[q]]]

\* ---------------------------------------------------------------- kv store
FREE_LIST_HEADER == 8
FREE_LIST_CAP == (BT_PAGE_SIZE - FREE_LIST_HEADER) \div 8

\* One page of the file, with the three ways its bytes are read:
\*   sig, root, flushed   the first 32 bytes read as a meta block
\*   node                 the page read as a tree node
\*   next, ptrs           the page read as a free-list node (ptrs: the slots
\*                        written so far, the others read 0)
\* bad marks the result of reading where the mmap holds no page.
ZeroPage ==
    [sig |-> FALSE, root |-> 0, flushed |-> 0, node |-> BadNode, next |-> 0, ptrs |-> << >>,
     bad |-> FALSE]
BadPage == [ZeroPage EXCEPT !.bad = TRUE]

\* the number that bytes 16..24 and 24..32 of a node page spell: the offsets
\* and the first kv header land in the high half of the word, beyond any page
BeyondFile == 0 - 1
NodePage(node) == [ZeroPage EXCEPT !.node = node, !.root = BeyondFile, !.flushed = BeyondFile]

\* the KV struct before Open: Go's zero values
ZeroFree == [headPage |-> 0, headSeq |-> 0, tailPage |-> 0, tailSeq |-> 0, maxSeq |-> 0]
ZeroDb ==
    [root |-> 0, flushed |-> 0, temp |-> << >>, failed |-> FALSE, free |-> ZeroFree,
     updates |-> << >>, total |-> 0]

\* The store the hooks of KV.Open close over: the KV struct d and the file f
\* as seen through the mmap.
KVStore(d, f) ==
    [kind |-> "KV", file |-> f, handed |-> {}, panic |-> FALSE] @@ d

DbOf(st) ==
    [root |-> st.root, flushed |-> st.flushed, temp |-> st.temp, failed |-> st.failed,
     free |-> st.free, updates |-> st.updates, total |-> st.total]

seq2idx(seq) == seq % FREE_LIST_CAP

\* KV.pageRead: the page at ptr of the mmap; past the chunks it panics ("bad
\* ptr"), past the end of the file the access faults
pageRead(st, ptr) ==
    IF ptr < 0 \/ ~(ptr < st.total) \/ ~(ptr < Len(st.file)) THEN BadPage
    ELSE st.file[ptr + 1]

\* KV.pageAppend: << store, ptr >>
pageAppend(st, page) ==
    << [st EXCEPT !.temp = Append(@, page)], st.flushed + Len(st.temp) >>

\* KV.pageWrite: the writable copy of page ptr, a copy made earlier if there
\* is one
CopyOf(st, ptr) == IF ptr \in DOMAIN st.updates THEN st.updates[ptr] ELSE pageRead(st, ptr)

PutCopy(st, ptr, copy) ==
    IF copy.bad THEN Halt(st) ELSE [st EXCEPT !.updates = (ptr :> copy) @@ @]

\* LNode(fl.set(page)).setPtr(idx, ptr)
LSetPtrIn(st, page, copy, idx, ptr) ==
    PutCopy(st, page, [copy EXCEPT !.ptrs = (idx :> ptr) @@ @])
LSetPtr(st, page, idx, ptr) == LSetPtrIn(st, page, CopyOf(st, page), idx, ptr)

\* LNode(fl.set(page)).setNext(next)
LSetNextIn(st, page, copy, next) == PutCopy(st, page, [copy EXCEPT !.next = next])
LSetNext(st, page, next) == LSetNextIn(st, page, CopyOf(st, page), next)

\* the two halves of DB_SIG read as 64-bit numbers: beyond any page
SigLow == 0 - 2
SigHigh == 0 - 3

\* LNode.getPtr; in a page that holds a meta block slots 0, 1 and 2 are the
\* second half of the signature, the root and the flushed count
LGetPtr(node, idx) ==
    IF idx \in DOMAIN node.ptrs THEN node.ptrs[idx]
    ELSE IF node.sig /\ idx = 0 THEN SigHigh
    ELSE IF node.sig /\ idx = 1 THEN node.root
    ELSE IF node.sig /\ idx = 2 THEN node.flushed
    ELSE 0

\* LNode.getNext; in a page that holds a meta block the first half of the
\* signature
LGetNext(node) == IF node.sig /\ node.next = 0 THEN SigLow ELSE node.next

\* flPop once the head node is read: [st, ptr, head]
FlPopNode(st, node) ==
    IF node.bad THEN [st |-> Halt(st), ptr |-> 0, head |-> 0]
    ELSE IF seq2idx(st.free.headSeq + 1) = 0
         THEN [st |-> IF LGetNext(node) = 0
                      THEN Halt(st)
                      ELSE [st EXCEPT !.free.headSeq = @ + 1, !.free.headPage = LGetNext(node)],
               ptr |-> LGetPtr(node, seq2idx(st.free.headSeq)),
               head |-> LGetNext(node)]
    ELSE [st |-> [st EXCEPT !.free.headSeq = @ + 1],
          ptr |-> LGetPtr(node, seq2idx(st.free.headSeq)),
          head |-> st.free.headPage]

\* a flPop that does not compare the head with the snapshot
flPopUnguarded(st) == FlPopNode(st, pageRead(st, st.free.headPage))

\* a flPop that stops at the tail instead of the snapshot
flPopToTail(st) ==
    IF st.free.headSeq = st.free.tailSeq THEN [st |-> st, ptr |-> 0, head |-> 0]
    ELSE FlPopNode(st, pageRead(st, st.free.headPage))

\* flPop: [st, ptr, head]; the second result is fl.headPage as it is on return
flPop(st) ==
    IF st.free.headSeq = st.free.maxSeq THEN [st |-> st, ptr |-> 0, head |-> 0]
    ELSE FlPopNode(st, pageRead(st, st.free.headPage))

\* PushTail, the end: the popped head page becomes slot 0 of the new tail
PushTailHead(st, head) ==
    IF st.panic \/ head = 0 THEN st
    ELSE [LSetPtr(st, st.free.tailPage, 0, head) EXCEPT !.free.tailSeq = @ + 1]

\* PushTail once the successor page is known, a = << store, next >>
PushTailNext(a, head) ==
    IF a[1].panic THEN a[1]
    ELSE PushTailHead([LSetNext(a[1], a[1].free.tailPage, a[2]) EXCEPT !.free.tailPage = a[2]],
                      head)

\* PushTail when the tail node is full, r being what flPop returned
PushTailFull(r) ==
    IF r.st.panic THEN r.st
    ELSE IF r.ptr = 0 THEN PushTailNext(pageAppend(r.st, ZeroPage), r.head)
    ELSE PushTailNext(<< r.st, r.ptr >>, r.head)

\* PushTail after the slot is written and tailSeq advanced
PushTailBump(st) ==
    IF st.panic THEN st
    ELSE IF seq2idx(st.free.tailSeq) = 0 THEN PushTailFull(flPop(st))
    ELSE st

\* FreeList.PushTail
PushTail(st, ptr) ==
    PushTailBump([LSetPtr(st, st.free.tailPage, seq2idx(st.free.tailSeq), ptr)
                     EXCEPT !.free.tailSeq = @ + 1])

\* FreeList.PopHead: << store, ptr >>
PopHeadPush(r) ==
    IF r.st.panic \/ r.head = 0 THEN << r.st, r.ptr >>
    ELSE << PushTail(r.st, r.head), r.ptr >>
PopHead(st) == PopHeadPush(flPop(st))

\* KV.pageAlloc once PopHead returned a = << store, ptr >>: a recycled page
\* number if the free list has one, else pageAppend
PageAllocAt(a, node) ==
    IF a[1].panic THEN << a[1], 0 >>
    ELSE IF a[2] = 0 THEN pageAppend(a[1], NodePage(node))
    ELSE << [a[1] EXCEPT !.updates = (a[2] :> NodePage(node)) @@ @], a[2] >>

\* KV.pageAlloc: << store, ptr >>
pageAlloc(st, node) ==
    IF node.bad THEN << Halt(st), 0 >> ELSE PageAllocAt(PopHead(st), node)

\* ------------------------------------------------------------------- hooks
\* BT.get, BT.new and BT.del, as NewC and KV.Open set them
stGet(st, ptr) ==
    IF st.panic THEN BadNode
    ELSE IF st.kind = "C" THEN cGet(st, ptr)
    ELSE pageRead(st, ptr).node

stNew(st, node) ==
    IF st.panic THEN << st, 0 >>
    ELSE IF st.kind = "C" THEN cNew(Hand(st, node), node)
    ELSE pageAlloc(Hand(st, node), node)

stDel(st, ptr) ==
    IF st.panic THEN st
    ELSE IF st.kind = "C" THEN cDel(st, ptr)
    ELSE PushTail(st, ptr)

SetRoot(a) == [a[1] EXCEPT !.root = a[2]]

\* -------------------------------------------------------------------- tree
Result(st, node) == [st |-> IF node.bad THEN Halt(st) ELSE st, node |-> node]

\* the loop of nodeReplaceKidN / BT.Insert over the split pieces: allocate
\* each piece and append (ptr, first key, nil); r = [st, buf]
RECURSIVE AppendKids(_, _, _, _, _)
\* one iteration that stores the zero-length key for kids[i]
AppendKidNoKey(r, n, idx, kids, i, a) ==
    AppendKids([st |-> a[1], buf |-> nodeAppendKV(r.buf, n, idx + (i - 1), a[2], Nil, Nil)],
               n, idx, kids, i + 1)

\* one iteration, a being what tree.new returned for kids[i]
AppendKid(r, n, idx, kids, i, a) ==
    AppendKids([st |-> a[1],
                buf |-> nodeAppendKV(r.buf, n, idx + (i - 1), a[2], getKey(kids[i], 0), Nil)],
               n, idx, kids, i + 1)

AppendKids(r, n, idx, kids, i) ==
    IF i > Len(kids) THEN r ELSE AppendKid(r, n, idx, kids, i, stNew(r.st, kids[i]))

\* the second nodeAppendRange of nodeReplaceKidN, r = [st, buf] after the kids
ReplaceKidNTail(r, old, idx, inc) ==
    Result(r.st,
           Built(BN_NODE,
                 nodeAppendRange(r.buf, nkeys(old) + inc - 1, old, idx + inc, idx + 1,
                                 nkeys(old) - idx - 1),
                 nkeys(old) + inc - 1))

\* nodeReplaceKidN: [st, node]
nodeReplaceKidN(st, old, idx, kids) ==
    ReplaceKidNTail(
        AppendKids([st |-> st,
                    buf |-> nodeAppendRange(NewBuf, nkeys(old) + Len(kids) - 1, old, 0, 0, idx)],
                   nkeys(old) + Len(kids) - 1, idx, kids, 1),
        old, idx, Len(kids))

RECURSIVE treeInsert(_, _, _, _)

\* nodeInsert from tree.del(kptr) on, split being what nodeSplit3 returned
NodeInsertReplace(st, split, node, idx) ==
    IF st.panic \/ split[1].bad THEN Result(st, BadNode)
    ELSE nodeReplaceKidN(stDel(st, getPtr(node, idx)), node, idx, split)

\* nodeInsert from nodeSplit3 on, r being what treeInsert returned for the kid
NodeInsertSplit(r, node, idx) == NodeInsertReplace(r.st, nodeSplit3(r.node), node, idx)

\* nodeInsert: [st, node]
nodeInsert(st, node, idx, key, val) ==
    IF ~(idx < nkeys(node)) THEN Result(st, BadNode)
    ELSE NodeInsertSplit(treeInsert(st, stGet(st, getPtr(node, idx)), key, val), node, idx)

\* the BN_LEAF case of treeInsert with the new pair put before the entry found
TreeInsertLeafBefore(st, node, idx, key, val) ==
    Result(st, IF key = getKey(node, idx)
               THEN leafUpdate(node, idx, key, val)
               ELSE leafInsert(node, idx, key, val))

\* the BN_LEAF case of treeInsert
TreeInsertLeaf(st, node, idx, key, val) ==
    Result(st, IF key = getKey(node, idx)
               THEN leafUpdate(node, idx, key, val)
               ELSE leafInsert(node, idx + 1, key, val))

\* treeInsert: [st, node], node being the 2-page scratch buffer
treeInsert(st, node, key, val) ==
    IF st.panic \/ node.bad THEN Result(st, BadNode)
    ELSE IF node.btype = BN_LEAF
         THEN TreeInsertLeaf(st, node, nodeLookupLE(node, key), key, val)
    ELSE IF node.btype = BN_NODE
         THEN nodeInsert(st, node, nodeLookupLE(node, key), key, val)
    ELSE Result(st, BadNode)

\* BT.Insert on an empty tree: the sentinel and the pair in a new leaf
InsertFirst(st, key, val) ==
    SetRoot(stNew(st, Built(BN_LEAF,
                            nodeAppendKV(nodeAppendKV(NewBuf, 2, 0, 0, Nil, Nil),
                                         2, 1, 0, key, val),
                            2)))

\* BT.Insert, the "add new level" branch, k = [st, buf] after the loop
InsertNewLevel(k, nsplit) == SetRoot(stNew(k.st, Built(BN_NODE, k.buf, nsplit)))

\* an Insert that stores the first piece as the root whatever the split gave
InsertRootOnePiece(st, split) ==
    IF st.panic THEN st ELSE SetRoot(stNew(st, split[1]))

\* BT.Insert after tree.del(tree.root)
InsertRoot(st, split) ==
    IF st.panic THEN st
    ELSE IF Len(split) > 1
         THEN InsertNewLevel(AppendKids([st |-> st, buf |-> NewBuf], Len(split), 0, split, 1),
                             Len(split))
    ELSE SetRoot(stNew(st, split[1]))

\* BT.Insert that goes on without tree.del(tree.root)
InsertKeepRoot(st, oldRoot, split) ==
    IF st.panic \/ split[1].bad THEN Halt(st) ELSE InsertRoot(st, split)

\* BT.Insert from tree.del(tree.root) on
InsertDel(st, oldRoot, split) ==
    IF st.panic \/ split[1].bad THEN Halt(st)
    ELSE InsertRoot(stDel(st, oldRoot), split)

\* BT.Insert from nodeSplit3 on
InsertSplit(r, oldRoot) == InsertDel(r.st, oldRoot, nodeSplit3(r.node))

\* BT.Insert: the store after the call
Insert(st, key, val) ==
    IF st.root = 0 THEN InsertFirst(st, key, val)
    ELSE InsertSplit(treeInsert(st, stGet(st, st.root), key, val), st.root)

\* treeGet: <<val, found>>, or <<Nil, "panic">> on a bad node type / bad ptr
RECURSIVE treeGet(_, _, _)
TreeGetAt(st, node, key, idx) ==
    IF node.btype = BN_LEAF
    THEN IF getKey(node, idx) = key THEN << getVal(node, idx), "found" >>
         ELSE << Nil, "absent" >>
    ELSE IF node.btype = BN_NODE /\ idx < nkeys(node)
         THEN treeGet(st, stGet(st, getPtr(node, idx)), key)
    ELSE << Nil, "panic" >>

treeGet(st, node, key) ==
    IF node.bad THEN << Nil, "panic" >> ELSE TreeGetAt(st, node, key, nodeLookupLE(node, key))

\* BT.Get
Get(st, key) ==
    IF st.root = 0 THEN << Nil, "absent" >> ELSE treeGet(st, stGet(st, st.root), key)

\* ------------------------------------------------------------------ delete
\* the right-sibling half of shouldMerge
ShouldMergeRight(st, node, idx, updated, right) ==
    IF right.bad THEN << 2, BadNode >>
    ELSE IF nbytes(right) + nbytes(updated) - HEADER <= BT_PAGE_SIZE THEN << 1, right >>
    ELSE << 0, BadNode >>

ShouldMergeNext(st, node, idx, updated) ==
    IF idx + 1 < nkeys(node)
    THEN ShouldMergeRight(st, node, idx, updated, stGet(st, getPtr(node, idx + 1)))
    ELSE << 0, BadNode >>

\* a shouldMerge that never looks at the left sibling
ShouldMergeLeftSkipped(st, node, idx, updated, left) ==
    ShouldMergeNext(st, node, idx, updated)

\* the left-sibling half of shouldMerge
ShouldMergeLeft(st, node, idx, updated, left) ==
    IF left.bad THEN << 2, BadNode >>
    ELSE IF nbytes(left) + nbytes(updated) - HEADER <= BT_PAGE_SIZE THEN << -1, left >>
    ELSE ShouldMergeNext(st, node, idx, updated)

\* shouldMerge: <<mergeDir, sibling>>; mergeDir 2 stands for the panic of tree.get
\* on a sibling page that does not exist
shouldMerge(st, node, idx, updated) ==
    IF nbytes(updated) > BT_PAGE_SIZE \div 4 THEN << 0, BadNode >>
    ELSE IF idx > 0
         THEN ShouldMergeLeft(st, node, idx, updated, stGet(st, getPtr(node, idx - 1)))
    ELSE ShouldMergeNext(st, node, idx, updated)

\* the rewrite of the separator at idx that follows nodeReplaceKidN in nodeDelete
PatchKey(node, idx, firstKey) ==
    IF node.bad \/ ~(idx < nkeys(node)) THEN BadNode
    ELSE [node EXCEPT !.kvs[idx + 1] = KV(@.ptr, firstKey, Nil)]

\* a node built in a buffer of BT_PAGE_SIZE bytes: writing an entry past the
\* end of the buffer is a slice-bounds panic
InPage(node) == IF node.bad \/ nbytes(node) > BT_PAGE_SIZE THEN BadNode ELSE node

Unchanged(st) == [st |-> st, node |-> BadNode, changed |-> FALSE]
ChangedTo(st, node) == [st |-> IF node.bad THEN Halt(st) ELSE st, node |-> node, changed |-> TRUE]
\* a node whose entries run past the end of its buffer is kept with the nodes
\* the call handed over: it is the node the call was producing when it died
Over(st, node) ==
    IF node.bad \/ nbytes(node) <= BT_PAGE_SIZE THEN st ELSE [st EXCEPT !.handed = @ \cup {node}]

\* what treeDelete / nodeDelete return: the node built in a one-page buffer
Changed(st, node) == ChangedTo(Over(st, node), InPage(node))

\* nodeDelete, a merge: at names the entry of node that the merged page
\* replaces (with its right neighbour), a is what tree.new(merged) returned
DeleteMerged(a, node, at, merged) ==
    Changed(a[1], nodeReplace2Kid(node, at, a[2], getKey(merged, 0)))

DeleteMerge(st, node, at, sibptr, merged) ==
    DeleteMerged(stNew(stDel(st, sibptr), merged), node, at, merged)

\* nodeDelete, the case mergeDir == 0 && updated.nkeys() > 0
DeletePatched(k, idx, updated) ==
    Changed(k.st, IF idx > 0 THEN PatchKey(k.node, idx, getKey(updated, 0)) ELSE k.node)

\* nodeDelete, the switch on mergeDir, m being what shouldMerge returned
DeleteSwitch(st, node, idx, updated, m) ==
    IF m[1] = 2 THEN Changed(Halt(st), BadNode)
    ELSE IF m[1] < 0
         THEN DeleteMerge(st, node, idx - 1, getPtr(node, idx - 1), nodeMerge(m[2], updated))
    ELSE IF m[1] > 0
         THEN DeleteMerge(st, node, idx, getPtr(node, idx + 1), nodeMerge(updated, m[2]))
    ELSE IF nkeys(updated) = 0
         THEN IF nkeys(node) = 1 /\ idx = 0 THEN Changed(st, Node(BN_NODE, << >>))
              ELSE Changed(Halt(st), BadNode)
    ELSE DeletePatched(nodeReplaceKidN(st, node, idx, << updated >>), idx, updated)

\* nodeDelete after tree.del(kptr)
DeleteKid(st, node, idx, updated) ==
    IF st.panic THEN Changed(st, BadNode)
    ELSE DeleteSwitch(st, node, idx, updated, shouldMerge(st, node, idx, updated))

\* nodeDelete after the recursive treeDelete returned r
DeleteUpdated(r, node, idx) ==
    IF r.st.panic THEN Changed(r.st, BadNode)
    ELSE IF ~r.changed THEN Unchanged(r.st)
    ELSE DeleteKid(stDel(r.st, getPtr(node, idx)), node, idx, r.node)

RECURSIVE treeDelete(_, _, _)
\* nodeDelete: [st, node, changed]
nodeDelete(st, node, idx, key) ==
    IF ~(idx < nkeys(node)) THEN Changed(Halt(st), BadNode)
    ELSE DeleteUpdated(treeDelete(st, stGet(st, getPtr(node, idx)), key), node, idx)

\* the BN_LEAF case of treeDelete that copies the leaf when the key is not in it
TreeDeleteLeafCopy(st, node, idx, key) ==
    IF getKey(node, idx) # key THEN Changed(st, node) ELSE Changed(st, leafDelete(node, idx))

\* the BN_LEAF case of treeDelete
TreeDeleteLeaf(st, node, idx, key) ==
    IF getKey(node, idx) # key THEN Unchanged(st) ELSE Changed(st, leafDelete(node, idx))

\* treeDelete: [st, node, changed]; changed = FALSE is the nil result
treeDelete(st, node, key) ==
    IF st.panic \/ node.bad THEN Changed(Halt(st), BadNode)
    ELSE IF node.btype = BN_LEAF THEN TreeDeleteLeaf(st, node, nodeLookupLE(node, key), key)
    ELSE nodeDelete(st, node, nodeLookupLE(node, key), key)

Deleted(st) == [st |-> st, deleted |-> ~st.panic]

\* BT.Delete after tree.del(tree.root)
DeleteRoot(st, updated) ==
    IF st.panic THEN Deleted(st)
    \* tree.root = updated.getPtr(0), which asserts 0 < nkeys
    ELSE IF nkeys(updated) = 0 /\ updated.btype = BN_NODE THEN Deleted(Halt(st))
    ELSE Deleted(SetRoot(stNew(st, updated)))

\* BT.Delete after treeDelete returned r
DeleteDone(r, oldRoot) ==
    IF r.st.panic \/ ~r.changed THEN [st |-> r.st, deleted |-> FALSE]
    ELSE DeleteRoot(stDel(r.st, oldRoot), r.node)

\* BT.Delete: [st, deleted]
Delete(st, key) ==
    IF st.root = 0 THEN [st |-> st, deleted |-> FALSE]
    ELSE DeleteDone(treeDelete(st, stGet(st, st.root), key), st.root)

\* =================================================================== state
VARIABLES
    root,       \* C.tree.root
    pages,      \* C.pages: address -> node
    ref,        \* C.ref: the reference map kept beside the tree
    panicked,   \* the process died on a failed assert / runtime panic
    handed,     \* the nodes the last call passed to the tree's new hook
    last,       \* the last call and what it returned
    db,         \* the KV struct: tree.root, page.flushed, page.temp, failed, free, ...
    file,       \* the pages of the file as the page cache (and the mmap) has them
    disk,       \* the pages of the file on stable storage
    pc,         \* where the running KV call stands: "closed", "idle", or a commit step
    op,         \* the running (or last) Set / Del: its arguments and its snapshot
    committed,  \* what Get returned for each key when the last meta fsync completed
    cfree,      \* the cursors of the free list when the last meta fsync completed
    crashes,    \* number of crashes so far
    calls       \* number of calls made on the free list alone

cvars == << root, pages, ref >>
kvars == << db, file, disk, pc, op, committed, cfree, crashes, calls >>
vars ==
    << root, pages, ref, panicked, handed, last, db, file, disk, pc, op, committed, cfree,
       crashes, calls >>

\* had: the reference map held the key when the call was made
Call(op_, key, val, res) ==
    [op |-> op_, key |-> key, val |-> val, res |-> res, had |-> key \in DOMAIN ref]

\* the store the hooks of NewC close over
CTree == CStore(root, pages)

\* ------------------------------------------------------------------ inputs
\* user keys and values of the in-memory harness; entry sizes 3000, 3080 and
\* 1000 bytes, and two short values
KeyA == Bytes(1, 1)
KeyB == Bytes(2, 80)
KeyC == Bytes(3, 1)
TreeKeys == { KeyA, KeyB, KeyC }
TreeInputs ==
    { << KeyA, Bytes(7, 2995) >>, << KeyB, Bytes(7, 2996) >>, << KeyC, Bytes(7, 995) >>,
      << KeyA, Bytes(8, 1) >>, << KeyC, Bytes(8, 1) >> }

\* ----------------------------------------------------------------- actions
\* keys and pairs given to the KV store: two short keys, the zero-length key,
\* a key of 1001 bytes and a value of 3001 bytes
LongKey == Bytes(4, BT_MAX_KEY_SIZE + 1)
KVKeys == { KeyA, KeyC }
KVInputs ==
    { << KeyA, Bytes(8, 1) >>, << KeyA, Bytes(9, 1) >>, << KeyC, Bytes(8, 1) >>,
      << Nil, Bytes(8, 1) >>, << LongKey, Bytes(8, 1) >>,
      << KeyC, Bytes(8, BT_MAX_VAL_SIZE + 1) >> }

\* what the API documents as a valid pair
ValidPair(key, val) ==
    key.n >= 1 /\ key.n <= BT_MAX_KEY_SIZE /\ val.n <= BT_MAX_VAL_SIZE

NoOp ==
    [name |-> "none", key |-> Nil, val |-> Nil, meta |-> ZeroPage, deleted |-> FALSE,
     ioerr |-> FALSE, db |-> ZeroDb, file |-> << >>, gets |-> << >>]

\* no harness is built yet, no file exists
Init ==
    /\ root = 0
    /\ pages = << >>
    /\ ref = << >>
    /\ panicked = FALSE
    /\ handed = {}
    /\ last = [op |-> "init", key |-> Nil, val |-> Nil, res |-> "ok", had |-> FALSE]
    /\ db = ZeroDb
    /\ file = << >>
    /\ disk = << >>
    /\ pc = "closed"
    /\ op = NoOp
    /\ committed = [k \in KVKeys |-> << Nil, "absent" >>]
    /\ cfree = ZeroFree
    /\ crashes = 0
    /\ calls = 0

InitC == Init

\* C.add after tree.Insert returned (or panicked) with store st
CAdded(key, val, st) ==
    /\ handed' = st.handed
    /\ UNCHANGED kvars
    /\ IF st.panic
       THEN /\ panicked' = TRUE
            /\ last' = Call("add", key, val, "panic")
            /\ UNCHANGED cvars
       ELSE /\ root' = st.root
            /\ pages' = st.pages
            /\ ref' = (key :> val) @@ ref
            /\ last' = Call("add", key, val, "ok")
            /\ UNCHANGED panicked

\* C.add: tree.Insert, then ref[key] = val
CAdd(key, val) ==
    /\ ~panicked
    /\ CAdded(key, val, Insert(CTree, key, val))

\* after c.tree.Delete returned (or panicked) with r = [st, deleted]
CDeleted(key, r) ==
    /\ handed' = r.st.handed
    /\ UNCHANGED kvars
    /\ IF r.st.panic
       THEN /\ panicked' = TRUE
            /\ last' = Call("delete", key, Nil, "panic")
            /\ UNCHANGED cvars
       ELSE /\ root' = r.st.root
            /\ pages' = r.st.pages
            /\ ref' = [k \in DOMAIN ref \ {key} |-> ref[k]]
            /\ last' = Call("delete", key, Nil, IF r.deleted THEN "true" ELSE "false")
            /\ UNCHANGED panicked

\* c.tree.Delete, and the delete from the expected map the tests do beside it
CDelete(key) ==
    /\ ~panicked
    /\ CDeleted(key, Delete(CTree, key))

CGot(key, g) ==
    /\ last' = Call("get", key, g[1], g[2])
    /\ panicked' = (g[2] = "panic")
    /\ handed' = {}
    /\ UNCHANGED << cvars, kvars >>

\* c.tree.Get
CGet(key) ==
    /\ ~panicked
    /\ CGot(key, Get(CTree, key))

NextC ==
    \/ \E kv \in TreeInputs : CAdd(kv[1], kv[2])
    \/ \E k \in TreeKeys : CDelete(k)
    \/ \E k \in TreeKeys \cup {Nil} : CGet(k)

SpecC == InitC /\ [][NextC]_vars

\* The same harness driven with keys and values of the maximum size, and one
\* short key: every leaf holds one long pair, so that the root fills up with
\* long separators.
LongBytes == { 1, 2, 3, 4, 5, 7 }
ShortKey == Bytes(6, 8)
LongKeys == { Bytes(c, BT_MAX_KEY_SIZE) : c \in LongBytes }
WideKeys == LongKeys \cup { ShortKey }
WideInputs ==
    { << k, Bytes(9, BT_MAX_VAL_SIZE) >> : k \in LongKeys } \cup { << ShortKey, Bytes(9, 1) >> }

WideDeletes == { ShortKey, Bytes(7, BT_MAX_KEY_SIZE) }

\* the keys arrive in ascending order, as in the loops of the tests
Ascending(key) == \A k \in DOMAIN ref : Less(k, key)

NextW ==
    \/ \E kv \in WideInputs : Ascending(kv[1]) /\ CAdd(kv[1], kv[2])
    \/ \E k \in WideDeletes : CDelete(k)
    \/ \E k \in WideKeys : CGet(k)

SpecW == InitC /\ [][NextW]_vars

\* ---------------------------------------------------------------- kv calls
MaxPages == 4
MaxCrashes == 1

\* the tree of the open database
KVTree == KVStore(db, file)

\* what Get returns for each key
KVGets(d, f) == [k \in KVKeys |-> Get(KVStore(d, f), k)]

\* saveMeta: the 32 bytes of the meta block
saveMeta(d) == [ZeroPage EXCEPT !.sig = TRUE, !.root = d.root, !.flushed = d.flushed]

\* loadMeta that accepts a block carrying the signature
loadMetaAccepting(d, data) ==
    [db |-> [d EXCEPT !.root = data.root, !.flushed = data.flushed], ok |-> TRUE]

\* loadMeta: [db, ok]; ok = FALSE when the assertion on the signature fails
loadMeta(d, data) ==
    IF ~(~data.sig) THEN [db |-> d, ok |-> FALSE]
    ELSE [db |-> [d EXCEPT !.root = data.root, !.flushed = data.flushed], ok |-> TRUE]

\* syscall.Mmap of one chunk, in pages
MmapChunk == (64 * 1024 * 1024) \div BT_PAGE_SIZE

\* readRoot: [db, ok]
readRoot(d, f) ==
    IF Len(f) = 0 THEN [db |-> [d EXCEPT !.flushed = 1], ok |-> TRUE]
    ELSE loadMeta(d, f[1])

\* KV.Open: the hooks are set on a zero KV struct; opening the file, mapping
\* it when it is not empty, and the call of readRoot follow the specification
OpenFile(f) == readRoot([ZeroDb EXCEPT !.total = IF Len(f) = 0 THEN 0 ELSE MmapChunk], f)

Opened(r) ==
    /\ db' = r.db
    /\ pc' = "idle"
    /\ panicked' = ~r.ok
    /\ last' = Call("open", Nil, Nil, IF r.ok THEN "ok" ELSE "panic")
    /\ op' = NoOp
    /\ handed' = {}
    /\ UNCHANGED << cvars, file, disk, committed, cfree, crashes, calls >>

Open ==
    /\ pc = "closed"
    /\ Opened(OpenFile(file))

\* the snapshot an operation starts from
Begin(name, key, val, deleted) ==
    [name |-> name, key |-> key, val |-> val, meta |-> saveMeta(db), deleted |-> deleted,
     ioerr |-> FALSE, db |-> db, file |-> file, gets |-> KVGets(db, file)]

\* a call that panicked inside the tree
Panicked(name, key, val, st) ==
    /\ panicked' = TRUE
    /\ last' = Call(name, key, val, "panic")
    /\ op' = Begin(name, key, val, FALSE)
    /\ handed' = st.handed
    /\ UNCHANGED << cvars, db, file, disk, pc, committed, cfree, crashes, calls >>

\* KV.Set up to the first system call of updateOrRevert; st is the store after
\* tree.Insert
SetCalled(key, val, st) ==
    IF st.panic THEN Panicked("set", key, val, st)
    ELSE /\ db' = DbOf(st)
         /\ pc' = IF db.failed THEN "rewrite" ELSE "write"
         /\ op' = Begin("set", key, val, FALSE)
         /\ handed' = st.handed
         /\ UNCHANGED << cvars, panicked, last, file, disk, committed, cfree, crashes, calls >>

Room == db.flushed + Len(db.temp) < MaxPages

SetCall(key, val) ==
    /\ pc = "idle" /\ ~panicked /\ Room
    /\ SetCalled(key, val, Insert(KVTree, key, val))

\* KV.Del up to the first system call of updateFile; r is what tree.Delete
\* returned
DelCalled(key, r) ==
    IF r.st.panic THEN Panicked("del", key, Nil, r.st)
    ELSE /\ db' = DbOf(r.st)
         /\ pc' = "write"
         /\ op' = Begin("del", key, Nil, r.deleted)
         /\ handed' = r.st.handed
         /\ UNCHANGED << cvars, panicked, last, file, disk, committed, cfree, crashes, calls >>

DelCall(key) ==
    /\ pc = "idle" /\ ~panicked /\ Room
    /\ DelCalled(key, Delete(KVTree, key))

\* a KV.Get that leaves a page on the staging list
GetCalledStaging(key, g) ==
    /\ last' = Call("get", key, g[1], g[2])
    /\ panicked' = (g[2] = "panic")
    /\ handed' = {}
    /\ db' = [db EXCEPT !.temp = Append(@, ZeroPage)]
    /\ UNCHANGED << cvars, file, disk, pc, op, committed, cfree, crashes, calls >>

\* KV.Get
GetCalled(key, g) ==
    /\ last' = Call("get", key, g[1], g[2])
    /\ panicked' = (g[2] = "panic")
    /\ handed' = {}
    /\ UNCHANGED << cvars, kvars >>

GetCall(key) ==
    /\ pc = "idle" /\ ~panicked
    /\ GetCalled(key, Get(KVTree, key))

\* ------------------------------------------------------------ commit steps
\* the running call goes on to its next system call
Step(d, f, dk, next) ==
    /\ db' = d /\ file' = f /\ disk' = dk /\ pc' = next
    /\ UNCHANGED << cvars, panicked, handed, last, op, committed, cfree, crashes, calls >>

\* the running call returns res; c is what the last completed commit holds
Return(d, f, dk, c, res, err, dead) ==
    /\ db' = d /\ file' = f /\ disk' = dk /\ pc' = "idle"
    /\ committed' = c
    /\ cfree' = IF res = "ok" THEN d.free ELSE cfree
    /\ last' = Call(op.name, op.key, op.val, res)
    /\ op' = [op EXCEPT !.ioerr = err]
    /\ panicked' = dead
    /\ UNCHANGED << cvars, handed, crashes, calls >>

\* updateOrRevert after loadMeta(db, meta) returned lm: the staged pages are
\* dropped and the error is returned
Reverted(lm, f, dk) ==
    IF lm.ok
    THEN Return([lm.db EXCEPT !.temp = << >>], f, dk, committed, "error", TRUE, FALSE)
    ELSE Return(lm.db, f, dk, committed, "panic", TRUE, TRUE)

\* updateFile returned an error: KV.Del returns it as it is, updateOrRevert
\* (KV.Set) sets failed and reverts
UpdateFileFailed(d, f, dk) ==
    IF op.name = "set" THEN Reverted(loadMeta([d EXCEPT !.failed = TRUE], op.meta), f, dk)
    ELSE Return(d, f, dk, committed, "error", TRUE, FALSE)

\* extendMmap, the doubling loop; sizes in pages
RECURSIVE MmapAlloc(_, _, _)
MmapAlloc(total, alloc, size) ==
    IF total + alloc < size THEN MmapAlloc(total, alloc * 2, size) ELSE alloc

\* extendMmap when syscall.Mmap succeeds
extendMmap(d, size) ==
    IF size <= d.total THEN d
    ELSE [d EXCEPT !.total = @ + MmapAlloc(d.total, Max2(d.total, MmapChunk), size)]

\* unix.Pwritev(fd, pgs, off): the file with pgs written from page off on
WriteAt(f, off, pgs) ==
    IF pgs = << >> THEN f
    ELSE [i \in 1..Max2(Len(f), off + Len(pgs)) |->
            IF i - 1 >= off /\ i - 1 < off + Len(pgs) THEN pgs[i - off]
            ELSE IF i <= Len(f) THEN f[i]
            ELSE ZeroPage]

\* syscall.Pwrite(fd, data, 0) of a meta block: the first 32 bytes of page 0
MetaOver(page, data) ==
    [page EXCEPT !.sig = data.sig, !.root = data.root, !.flushed = data.flushed,
                 !.node = BadNode]
WriteMeta(f, data) ==
    IF Len(f) = 0 THEN << MetaOver(ZeroPage, data) >>
    ELSE [f EXCEPT ![1] = MetaOver(@, data)]

\* a writePages that leaves page.flushed where it was
WritePagesKeep(res) ==
    /\ pc = "write"
    /\ IF res = "mmap"
       THEN /\ ~(db.flushed + Len(db.temp) <= db.total)
            /\ UpdateFileFailed(db, file, disk)
       ELSE IF res = "pwritev"
       THEN UpdateFileFailed(extendMmap(db, db.flushed + Len(db.temp)), file, disk)
       ELSE Step([extendMmap(db, db.flushed + Len(db.temp)) EXCEPT !.temp = << >>],
                 WriteAt(file, db.flushed, db.temp), disk, "sync")

\* writePages: res tells which call fails, if any
WritePages(res) ==
    /\ pc = "write"
    /\ IF res = "mmap"
       THEN /\ ~(db.flushed + Len(db.temp) <= db.total)
            /\ UpdateFileFailed(db, file, disk)
       ELSE IF res = "pwritev"
       THEN UpdateFileFailed(extendMmap(db, db.flushed + Len(db.temp)), file, disk)
       ELSE Step([extendMmap(db, db.flushed + Len(db.temp))
                     EXCEPT !.flushed = @ + Len(db.temp), !.temp = << >>],
                 WriteAt(file, db.flushed, db.temp), disk, "sync")

\* an updateFile that goes on to updateRoot when the fsync of the pages failed
FsyncIgnored(ok) ==
    /\ pc \in { "resync", "sync", "msync" }
    /\ IF pc = "resync"
       THEN IF ok THEN Step([db EXCEPT !.failed = FALSE], file, file, "write")
            ELSE Return(db, file, disk, committed, "error", TRUE, FALSE)
       ELSE IF pc = "sync" THEN Step(db, file, IF ok THEN file ELSE disk, "meta")
       ELSE IF ~ok THEN UpdateFileFailed(db, file, disk)
       ELSE Return(db, file, file, KVGets(db, file), "ok", FALSE, FALSE)

\* syscall.Fsync at its three call sites: after the rewrite of the old meta,
\* after the pages, after the new meta
Fsync(ok) ==
    /\ pc \in { "resync", "sync", "msync" }
    /\ IF pc = "resync"
       THEN IF ok THEN Step([db EXCEPT !.failed = FALSE], file, file, "write")
            ELSE Return(db, file, disk, committed, "error", TRUE, FALSE)
       ELSE IF ~ok THEN UpdateFileFailed(db, file, disk)
       ELSE IF pc = "sync" THEN Step(db, file, file, "meta")
       ELSE Return(db, file, file, KVGets(db, file), "ok", FALSE, FALSE)

\* syscall.Pwrite of the meta block at its two call sites: the old meta in
\* updateOrRevert, the new one in updateRoot
PwriteMeta(ok) ==
    /\ pc \in { "rewrite", "meta" }
    /\ IF pc = "rewrite"
       THEN IF ok THEN Step(db, WriteMeta(file, op.meta), disk, "resync")
            ELSE Return(db, file, disk, committed, "error", TRUE, FALSE)
       ELSE IF ok THEN Step(db, WriteMeta(file, saveMeta(db)), disk, "msync")
       ELSE UpdateFileFailed(db, file, disk)

\* the pages the page cache holds and stable storage does not
Dirty == { i \in 1..Len(file) : i > Len(disk) \/ file[i] # disk[i] }

SetMax(S) == CHOOSE m \in S : \A x \in S : x <= m

\* stable storage once the pages S of the cache reached it
Persist(S) ==
    [i \in 1..(IF S = {} THEN Len(disk) ELSE Max2(Len(disk), SetMax(S))) |->
        IF i \in S THEN file[i] ELSE IF i <= Len(disk) THEN disk[i] ELSE ZeroPage]

Crashed(dk) ==
    /\ disk' = dk /\ file' = dk
    /\ db' = ZeroDb
    /\ pc' = "closed"
    /\ panicked' = FALSE
    /\ op' = NoOp
    /\ handed' = {}
    /\ last' = Call("crash", Nil, Nil, "ok")
    /\ crashes' = crashes + 1
    /\ UNCHANGED << cvars, committed, cfree, calls >>

\* the machine stops at any point; any of the dirty pages S may have been
\* written back before
Crash(S) ==
    /\ pc # "closed"
    /\ crashes < MaxCrashes
    /\ Crashed(Persist(S))

NextKV ==
    \/ Open
    \/ \E kv \in KVInputs : SetCall(kv[1], kv[2])
    \/ \E k \in KVKeys : DelCall(k)
    \/ \E k \in KVKeys : GetCall(k)
    \/ \E res \in { "ok", "mmap", "pwritev" } : WritePages(res)
    \/ \E ok \in BOOLEAN : Fsync(ok)
    \/ \E ok \in BOOLEAN : PwriteMeta(ok)
    \/ \E S \in SUBSET Dirty : Crash(S)

SpecKV == Init /\ [][NextKV]_vars

\* ---------------------------------------------------------------- ownership
\* the node the tree has at page p: a staged page, else the page of the file
NodeAt(d, f, p) ==
    IF p >= d.flushed /\ p - d.flushed < Len(d.temp) THEN d.temp[p - d.flushed + 1].node
    ELSE IF p >= 0 /\ p < Len(f) THEN f[p + 1].node
    ELSE BadNode

RECURSIVE ReachFrom(_, _, _, _)
ReachKids(d, f, p, node, fuel) ==
    IF node.bad \/ node.btype # BN_NODE \/ fuel = 0 THEN { p }
    ELSE { p } \cup UNION { ReachFrom(d, f, getPtr(node, i), fuel - 1) : i \in 0..(nkeys(node) - 1) }

ReachFrom(d, f, p, fuel) == ReachKids(d, f, p, NodeAt(d, f, p), fuel)

\* the pages reachable from tree.root
Reachable(d, f) ==
    IF d.root = 0 THEN {} ELSE ReachFrom(d, f, d.root, Len(f) + Len(d.temp))

\* the entries of the free list from seq on, page holding slot seq
RECURSIVE FreeFrom(_, _, _)
FreeFrom(st, page, seq) ==
    IF seq >= st.free.tailSeq THEN {}
    ELSE { LGetPtr(CopyOf(st, page), seq2idx(seq)) }
         \cup FreeFrom(st, IF seq2idx(seq + 1) = 0 THEN LGetNext(CopyOf(st, page)) ELSE page, seq + 1)

\* the entries of the free list between headSeq and tailSeq
FreeEntries(d, f) == FreeFrom(KVStore(d, f), d.free.headPage, d.free.headSeq)

\* ================================================================== claims
UserKeys == TreeKeys \cup WideKeys

\* C1: Get/Set law.  Every Insert of a valid pair completes, and Get returns
\* for each key the value of the last Insert of that key that no Delete of
\* the key followed.
GetSetLaw ==
    /\ (last.op = "add" => last.res = "ok")
    /\ \A k \in DOMAIN ref : Get(CTree, k) = << ref[k], "found" >>

\* C2: Delete law.  Delete of a key the tree contains completes and reports
\* true; afterwards Get of that key reports not-found until it is inserted
\* again, and every other key keeps its value.
DeleteLaw ==
    /\ (last.op = "delete" /\ last.had => last.res = "true")
    /\ \A k \in UserKeys \ DOMAIN ref : Get(CTree, k)[2] = "absent"
    /\ \A k \in DOMAIN ref : Get(CTree, k) = << ref[k], "found" >>

\* C3: the sentinel is never returned.  Get reports found only for a key a
\* user Insert stored and no Delete removed since; never for the zero-length
\* key.
SentinelNeverReturned ==
    \A k \in UserKeys \cup {Nil} : Get(CTree, k)[2] = "found" => k \in DOMAIN ref

\* C10: page-bounded after Insert.  Every node an Insert hands to the page
\* store, each piece of a split included, has nbytes <= BT_PAGE_SIZE.
PageBoundedInsert ==
    last.op = "add" => \A node \in handed : nbytes(node) <= BT_PAGE_SIZE

\* C4: caller errors change nothing.  A Set with a key longer than 1000
\* bytes, a value longer than 3000 bytes or a zero-length key returns an
\* error and leaves root, staged pages, free list and file as they were.
CallerErrorsChangeNothing ==
    (pc = "idle" /\ last.op = "set" /\ ~op.ioerr /\ ~ValidPair(last.key, last.val)) =>
        /\ last.res = "error"
        /\ db = op.db
        /\ file = op.file

\* C5: Set failure reverts memory.  A Set that met an I/O error returns the
\* error with failed set, root and flushed as before the Set, nothing staged,
\* and every Get as before the Set.
SetFailureReverts ==
    (op.name = "set" /\ op.ioerr) =>
        /\ ~panicked
        /\ (last.op = "set" => last.res = "error")
        /\ db.failed
        /\ db.root = op.db.root /\ db.flushed = op.db.flushed
        /\ db.temp = << >>
        /\ KVGets(db, file) = op.gets

\* C6: Del is atomic like Set.  A Del one of whose commit steps failed leaves
\* failed set, root and flushed as before the Del, nothing staged, and Get
\* still finds what it found before.
DelFailureReverts ==
    (op.name = "del" /\ op.ioerr) =>
        /\ db.failed
        /\ db.root = op.db.root /\ db.flushed = op.db.flushed
        /\ db.temp = << >>
        /\ Get(KVTree, op.key) = op.gets[op.key]

\* C7: crash safety.  Opening the file after a crash at any step succeeds and
\* yields, for every key, what the last operation whose meta fsync completed
\* left.
CrashSafety ==
    (pc = "idle" /\ last.op = "open") =>
        /\ last.res = "ok"
        /\ KVGets(db, file) = committed

PageBoundedDelete ==
    last.op = "delete" => \A node \in handed : nbytes(node) <= BT_PAGE_SIZE

\* the entries of a node are in strictly increasing key order
SortedNode(node) ==
    \A i \in 1..(nkeys(node) - 1) : Less(node.kvs[i].key, node.kvs[i + 1].key)

RECURSIVE CReachFrom(_, _, _)
CReachFrom(pg, p, fuel) ==
    IF p \notin DOMAIN pg \/ pg[p].btype # BN_NODE \/ fuel = 0 THEN { p }
    ELSE { p } \cup UNION { CReachFrom(pg, pg[p].kvs[i].ptr, fuel - 1) : i \in 1..nkeys(pg[p]) }

\* the pages reachable from c.tree.root
CReachable == IF root = 0 THEN {} ELSE CReachFrom(pages, root, Cardinality(DOMAIN pages))

\* every child of an internal node is a live page whose first key is the key
\* the node stores for it
SeparatorsOf(node) ==
    \A i \in 1..nkeys(node) :
        /\ node.kvs[i].ptr \in DOMAIN pages
        /\ getKey(pages[node.kvs[i].ptr], 0) = node.kvs[i].key

\* C13: parent-separator.  After every Insert and every Delete, for every
\* internal node of the tree and every index i, child_ptrs[i] is a live page
\* whose first key equals the i-th key of the internal node.
ParentSeparator ==
    \A p \in CReachable :
        /\ p \in DOMAIN pages
        /\ pages[p].btype = BN_NODE => SeparatorsOf(pages[p])

\* the 8-byte key was deleted from the leaf it was the first key of, and the
\* root now has the 1000-byte key that followed it as the separator of that leaf
ParentSeparatorWitness ==
    /\ last.op = "delete" /\ last.res = "true" /\ last.key = ShortKey
    /\ root \in DOMAIN pages /\ pages[root].btype = BN_NODE
    /\ \E i \in 2..nkeys(pages[root]) :
          /\ pages[root].kvs[i].key = Bytes(7, BT_MAX_KEY_SIZE)
          /\ getKey(pages[pages[root].kvs[i].ptr], 0) = Bytes(7, BT_MAX_KEY_SIZE)

\* C14: no leak and no double release.  After every Insert and every Delete
\* the pages obtained through the new hook and not passed to the del hook
\* are exactly the pages reachable from root, and no Insert or Delete passes
\* to del an address that is not a live page.
NoLeakNoDoubleRelease ==
    /\ DOMAIN pages = CReachable
    /\ ~panicked =>
          /\ \A kv \in TreeInputs : ~Insert(CTree, kv[1], kv[2]).twice
          /\ \A k \in TreeKeys : ~Delete(CTree, k).st.twice

\* three keys were inserted, with Deletes in between or not, and the tree is
\* one leaf page
NoLeakWitness ==
    /\ last.op = "add" /\ last.res = "ok"
    /\ Cardinality(DOMAIN ref) = 3
    /\ Cardinality(DOMAIN pages) = 1 /\ DOMAIN pages = { root }

\* C15: Delete returns true if and only if the key was present.  Delete(k)
\* returns true when k was stored by an earlier Insert and not deleted since,
\* and false otherwise, an empty tree included.
DeleteReportsPresence ==
    last.op = "delete" => (last.res = IF last.had THEN "true" ELSE "false")

\* C16: Delete of an absent key is a no-op on the tree.  It returns false,
\* allocates no page, releases no page and leaves root unchanged, whether the
\* root is a leaf or an internal node.
DeleteAbsentNoOp ==
    [][(last'.op = "delete" /\ ~last'.had) =>
          /\ last'.res = "false"
          /\ root' = root /\ pages' = pages
          /\ handed' = {}]_vars

\* a Delete of a key the tree does not hold returned, on a tree whose root is
\* an internal node
DeleteAbsentWitness ==
    /\ last.op = "delete" /\ ~last.had /\ last.res = "false"
    /\ root \in DOMAIN pages /\ pages[root].btype = BN_NODE
    /\ DOMAIN ref # {}

\* C17: read purity.  Get, for any key and any reachable tree, leaves root,
\* the set of pages, the staging list and the free list unchanged.  (A step
\* that returns from a Get is one that leaves pc as it is and ends with
\* last.op = "get".)
ReadPurity ==
    [][(last'.op = "get" /\ pc' = pc) =>
          /\ root' = root /\ pages' = pages
          /\ db' = db /\ file' = file]_vars

\* a Get found its key in a committed tree while the free list held an entry
ReadPurityWitness ==
    /\ pc = "idle" /\ last.op = "get" /\ last.res = "found"
    /\ db.root # 0
    /\ FreeEntries(db, file) # {}

\* what Get returns for every key, the zero-length key included
CGets(r, pg) == [k \in UserKeys \cup { Nil } |-> Get(CStore(r, pg), k)]

\* the number of entries in the leaves
KeyCount(pg) ==
    Cardinality(UNION { { << p, i >> : i \in 1..nkeys(pg[p]) } :
                        p \in { q \in DOMAIN pg : pg[q].btype = BN_LEAF } })

\* C18: Set idempotence on value.  Insert(k, v) on a tree that already holds v
\* for k, as it does after Insert(k, v), completes, changes the result of Get
\* for no key and leaves the number of stored keys as it was.
InsertIdempotent ==
    [][(last'.op = "add" /\ last'.had /\ ref[last'.key] = last'.val) =>
          /\ last'.res = "ok"
          /\ CGets(root', pages') = CGets(root, pages)
          /\ KeyCount(pages') = KeyCount(pages)]_vars

\* the 80-byte key, which is only ever inserted with one value, was inserted
\* again into a tree of two levels
InsertIdempotentWitness ==
    /\ last.op = "add" /\ last.res = "ok" /\ last.had /\ last.key = KeyB
    /\ root \in DOMAIN pages /\ pages[root].btype = BN_NODE

\* C19: free-list cursors survive reopen.  Opening the file after a commit
\* succeeds and leaves the head page, head_seq, tail page and tail_seq of the
\* free list as they were at that commit.
FreeListSurvivesReopen ==
    (pc = "idle" /\ last.op = "open") =>
        /\ last.res = "ok"
        /\ db.free.headPage = cfree.headPage /\ db.free.headSeq = cfree.headSeq
        /\ db.free.tailPage = cfree.tailPage /\ db.free.tailSeq = cfree.tailSeq

\* the meta block of a file: signature, root and flushed of page 0
MetaOf(f) == IF Len(f) = 0 THEN << FALSE, 0, 0 >> ELSE << f[1].sig, f[1].root, f[1].flushed >>

\* every page of the file but page 0 is on stable storage as the file has it
DataDurable == \A i \in 2..Len(file) : i <= Len(disk) /\ disk[i] = file[i]

\* C20: commit ordering.  In every Set and Del a meta block (the signature
\* with root and flushed) is written only when the staged pages were written
\* and the fsync that followed them succeeded, and it carries the root of
\* the call; a call that returns from the page write or from that fsync
\* leaves no meta block in the file but the one the call began with.
CommitOrdering ==
    [][/\ (pc' # "closed" /\ MetaOf(file')[1] /\ MetaOf(file') # MetaOf(file)) =>
             /\ pc = "meta" /\ op.name \in { "set", "del" }
             /\ db.temp = << >>
             /\ DataDurable
             /\ MetaOf(file') = << TRUE, db.root, db.flushed >>
       /\ (pc \in { "write", "sync" } /\ pc' = "idle" /\ MetaOf(file')[1]) =>
             MetaOf(file') = MetaOf(op.file)]_vars

\* a Del that removed a key has written the meta block with the new root
CommitOrderingWitness ==
    /\ pc = "msync" /\ op.name = "del" /\ op.deleted
    /\ MetaOf(file) = << TRUE, db.root, db.flushed >>
    /\ MetaOf(file) # MetaOf(op.file)

\* the pages reachable from the root that the meta block of file f records
MetaReachable(f) ==
    IF Len(f) = 0 \/ ~f[1].sig THEN {}
    ELSE Reachable([ZeroDb EXCEPT !.root = f[1].root, !.flushed = Len(f)], f)

\* the pages a reopen may find committed: those of the meta block on stable
\* storage and those of the meta block written and not yet synced
CommittedPages == MetaReachable(disk) \cup MetaReachable(file)

\* C21: committed pages are never overwritten in place.  No step of a Set or
\* Del changes the data of a page reachable from the root recorded in the
\* meta page on disk, also in the operation that follows a commit that failed
\* after its meta write.
NoOverwriteInPlace ==
    [][pc' # "closed" =>
          \A p \in CommittedPages :
              (p >= 1 /\ p < Len(file)) => (p < Len(file') /\ file'[p + 1] = file[p + 1])]_vars

\* the pages of an operation were written after a Del had failed behind its
\* meta write: the meta block on disk is still the one of the commit before
NoOverwriteWitness ==
    /\ pc = "sync" /\ file # op.file
    /\ last.op = "del" /\ last.res = "error"
    /\ MetaOf(disk) # MetaOf(op.file)
    /\ MetaReachable(disk) # {}

\* C22: max_seq is snapshotted per transaction.  While the tree mutation of a
\* Set or Del runs, and in its commit, max_seq equals tail_seq as it was when
\* the operation started.
MaxSeqSnapshot ==
    op.name \in { "set", "del" } => db.free.maxSeq = op.db.free.tailSeq

\* C23: within one Set or Del no pop consumes an entry the same call pushed:
\* the entries consumed so far all lie before the tail the call started with.
NoSelfConsumption ==
    op.name \in { "set", "del" } => db.free.headSeq <= op.db.free.tailSeq

\* a Set released the old root to the free list and asked it for a page
\* afterwards
NoSelfConsumptionWitness ==
    /\ pc = "write" /\ op.name = "set"
    /\ db.free.tailSeq > op.db.free.tailSeq
    /\ db.temp # << >>
    /\ db.free.headSeq = op.db.free.headSeq

\* ---------------------------------------------------------- free list calls
\* The free list of an open database, driven through its three methods.  The
\* database holds one committed key: Open on a new file, Set, and the commit.
FlSet == Insert(KVStore(OpenFile(<< >>).db, << >>), KeyA, Bytes(8, 1))
FlBaseDb ==
    [extendMmap(DbOf(FlSet), FlSet.flushed + Len(FlSet.temp))
        EXCEPT !.flushed = @ + Len(FlSet.temp), !.temp = << >>]
FlBaseFile == WriteMeta(WriteAt(<< >>, FlSet.flushed, FlSet.temp), saveMeta(FlBaseDb))

\* page numbers released to the list
FlPtrs == { 5, 6 }

\* n calls of PushTail, then setMaxSeq and n calls of PopHead
RECURSIVE FlPushes(_, _)
FlPushes(st, n) ==
    IF n = 1 THEN PushTail(st, 5)
    ELSE LET half == FlPushes(st, n \div 2)
         IN  IF half.panic THEN half ELSE FlPushes(half, n - n \div 2)
RECURSIVE FlPops(_, _)
FlPops(st, n) ==
    IF n = 1 THEN PopHead(st)[1]
    ELSE LET half == FlPops(st, n \div 2)
         IN  IF half.panic THEN half ELSE FlPops(half, n - n \div 2)
FlUsed(n) ==
    DbOf(FlPops([FlPushes(KVStore(FlBaseDb, FlBaseFile), n) EXCEPT !.free.maxSeq = n], n))

\* calls made on one list
MaxFlCalls == 5

\* the list is new, or its first page is used up to the last two slots
InitFL ==
    /\ root = 0 /\ pages = << >> /\ ref = << >>
    /\ panicked = FALSE
    /\ handed = {}
    /\ last = [op |-> "init", key |-> Nil, val |-> Nil, res |-> "ok", had |-> FALSE]
    /\ db \in { FlBaseDb, FlUsed(FREE_LIST_CAP - 2) }
    /\ file = FlBaseFile
    /\ disk = FlBaseFile
    /\ pc = "idle"
    /\ op = NoOp
    /\ committed = [k \in KVKeys |-> << Nil, "absent" >>]
    /\ cfree = ZeroFree
    /\ crashes = 0
    /\ calls = 0

\* a method of the free list returned (or panicked) with store st
FlCalled(name, st) ==
    /\ panicked' = st.panic
    /\ db' = IF st.panic THEN db ELSE DbOf(st)
    /\ last' = Call(name, Nil, Nil, IF st.panic THEN "panic" ELSE "ok")
    /\ calls' = calls + 1
    /\ UNCHANGED << cvars, handed, file, disk, pc, op, committed, cfree, crashes >>

FlCall == ~panicked /\ calls < MaxFlCalls

FlPushTail(ptr) == FlCall /\ FlCalled("push", PushTail(KVTree, ptr))

FlPopHead == FlCall /\ FlCalled("pop", PopHead(KVTree)[1])

FlSetMaxSeq == FlCall /\ FlCalled("snapshot", [KVTree EXCEPT !.free.maxSeq = KVTree.free.tailSeq])

NextFL ==
    \/ \E ptr \in FlPtrs : FlPushTail(ptr)
    \/ FlPopHead
    \/ FlSetMaxSeq

SpecFL == InitFL /\ [][NextFL]_vars

\* C24: the page PopHead pushes onto the tail (the second result of flPop,
\* when it is not 0) is pushed only by the pop that moves the slot index to 0,
\* it is the head page that pop has just used up, and it is neither the head
\* nor the tail page of the list.
ExhaustedHeadRecycled ==
    LET r == flPop(KVTree)
    IN  (~panicked /\ ~r.st.panic /\ r.head # 0) =>
            /\ seq2idx(r.st.free.headSeq) = 0
            /\ r.head = db.free.headPage
            /\ r.head # r.st.free.headPage
            /\ r.head # r.st.free.tailPage

\* C25: FIFO order.  Whenever entries are left below the snapshot, the next
\* PopHead returns the entry PushTail wrote at the head position, the oldest
\* one not returned yet, and moves the head by exactly one entry.
FifoOrder ==
    LET r == PopHead(KVTree)
    IN  (~panicked /\ db.free.headSeq # db.free.maxSeq /\ ~r[1].panic) =>
            /\ r[2] = LGetPtr(CopyOf(KVTree, db.free.headPage), seq2idx(db.free.headSeq))
            /\ r[1].free.headSeq = db.free.headSeq + 1

\* C26: meta round trip.  loadMeta accepts the block saveMeta makes of the
\* open database and restores the root and the flushed count saved in it, and
\* it rejects a block that does not carry the signature.
MetaRoundTrip ==
    pc # "closed" =>
        /\ loadMeta(ZeroDb, saveMeta(db)).ok
        /\ loadMeta(ZeroDb, saveMeta(db)).db.root = db.root
        /\ loadMeta(ZeroDb, saveMeta(db)).db.flushed = db.flushed
        /\ ~loadMeta(db, ZeroPage).ok

\* C27: internal nodes split like leaves.  When the Insert of a pair makes
\* the root internal node larger than a page, nodeSplit3 divides it into
\* pieces that each fit in one page and the Insert completes.
InternalNodeSplits ==
    \A kv \in WideInputs :
        LET r == treeInsert(CTree, cGet(CTree, root), kv[1], kv[2])
        IN  ( /\ ~panicked /\ root # 0 /\ Ascending(kv[1])
              /\ ~r.st.panic /\ ~r.node.bad
              /\ r.node.btype = BN_NODE /\ nbytes(r.node) > BT_PAGE_SIZE ) =>
                /\ ~nodeSplit3(r.node)[1].bad
                /\ \A i \in DOMAIN nodeSplit3(r.node) :
                       nbytes(nodeSplit3(r.node)[i]) <= BT_PAGE_SIZE
                /\ ~Insert(CTree, kv[1], kv[2]).panic

\* ------------------------------------------------------------ split inputs
\* The in-memory harness driven with two pairs of 1995 bytes that share a
\* leaf and a pair of 3084 bytes whose key lies between theirs; Delete and
\* Get are also called with the zero-length key.
SplitInputs ==
    { << KeyA, Bytes(7, 1990) >>, << KeyB, Bytes(7, BT_MAX_VAL_SIZE) >>,
      << KeyC, Bytes(7, 1990) >> }

NextS ==
    \/ \E kv \in SplitInputs : CAdd(kv[1], kv[2])
    \/ \E k \in TreeKeys \cup { Nil } : CDelete(k)
    \/ \E k \in TreeKeys \cup { Nil } : CGet(k)

SpecS == InitC /\ [][NextS]_vars

\* C28: the split always succeeds.  For the root leaf and every pair, the
\* scratch node treeInsert builds is split by nodeSplit3 without a failed
\* assertion, into one, two or three pieces.
SplitSucceeds ==
    \A kv \in SplitInputs :
        LET r == treeInsert(CTree, cGet(CTree, root), kv[1], kv[2])
        IN  ( /\ ~panicked /\ root # 0 /\ cGet(CTree, root).btype = BN_LEAF
              /\ nbytes(cGet(CTree, root)) <= BT_PAGE_SIZE
              /\ ~r.st.panic /\ ~r.node.bad ) =>
                /\ ~nodeSplit3(r.node)[1].bad
                /\ Len(nodeSplit3(r.node)) \in 1..3

\* C29: root promotion.  When treeDelete returns the root internal node with
\* zero keys, BT.Delete completes and reports the deletion.
RootPromotion ==
    \A k \in TreeKeys \cup { Nil } :
        LET r == treeDelete(CTree, cGet(CTree, root), k)
        IN  ( /\ ~panicked /\ root # 0
              /\ ~r.st.panic /\ r.changed /\ ~r.node.bad
              /\ r.node.btype = BN_NODE /\ nkeys(r.node) = 0 ) =>
                /\ ~Delete(CTree, k).st.panic
                /\ Delete(CTree, k).deleted

\* the leaf reached from page p through the first pointer of every node
RECURSIVE LeftmostLeaf(_, _, _)
LeftmostLeaf(pg, p, fuel) ==
    IF p \notin DOMAIN pg \/ fuel = 0 THEN BadNode
    ELSE IF pg[p].btype = BN_LEAF THEN pg[p]
    ELSE IF nkeys(pg[p]) = 0 THEN BadNode
    ELSE LeftmostLeaf(pg, getPtr(pg[p], 0), fuel - 1)

\* C30: sentinel invariant.  In every non-empty tree index 0 of the leftmost
\* leaf holds the zero-length key.
SentinelKept ==
    (~panicked /\ root # 0) =>
        /\ ~LeftmostLeaf(pages, root, Cardinality(DOMAIN pages)).bad
        /\ nkeys(LeftmostLeaf(pages, root, Cardinality(DOMAIN pages))) > 0
        /\ getKey(LeftmostLeaf(pages, root, Cardinality(DOMAIN pages)), 0) = Nil

\* ------------------------------------------------------------ merge inputs
\* The in-memory harness driven with pairs that put leaves of 4032, 1024,
\* 1025 and 20 bytes side by side: a 1000-byte key with a 3000-byte value,
\* the 80-byte key with values of 926 and 927 bytes, and two 1-byte keys
\* with values of 2000 bytes, one of them also with a value of 1 byte.
KeyL == Bytes(1, BT_MAX_KEY_SIZE)
KeyD == Bytes(4, 1)
MergeKeys == { KeyL, KeyB, KeyC, KeyD }
MergeInputs ==
    { << KeyL, Bytes(7, BT_MAX_VAL_SIZE) >>,
      << KeyB, Bytes(7, 926) >>, << KeyB, Bytes(7, 927) >>,
      << KeyC, Bytes(7, 2000) >>, << KeyC, Bytes(8, 1) >>, << KeyD, Bytes(7, 2000) >> }

NextM ==
    \/ \E kv \in MergeInputs : CAdd(kv[1], kv[2])
    \/ \E k \in MergeKeys : CDelete(k)
    \/ \E k \in MergeKeys : CGet(k)

SpecM == InitC /\ [][NextM]_vars

\* the child i of an internal node
KidAt(pg, node, i) == pg[getPtr(node, i)]

\* the sizes in bytes of the children of the root, left to right
KidBytes(pg, r) == [i \in 1..nkeys(pg[r]) |-> nbytes(KidAt(pg, pg[r], i - 1))]

\* the merge rule: -1 (left), 1 (right) or 0 (none) for the rewritten child
\* updated of node at idx, a merge candidate up to limit bytes
MergeChoice(pg, node, idx, updated, limit) ==
    IF nbytes(updated) > limit THEN 0
    ELSE IF idx > 0 /\ nbytes(KidAt(pg, node, idx - 1)) + nbytes(updated) - HEADER <= BT_PAGE_SIZE
         THEN 0 - 1
    ELSE IF idx + 1 < nkeys(node)
            /\ nbytes(KidAt(pg, node, idx + 1)) + nbytes(updated) - HEADER <= BT_PAGE_SIZE
         THEN 1
    ELSE 0

\* the sizes of the children once child idx is rewritten to size bytes and
\* merged as choice says
MergedBytes(sizes, idx, size, choice) ==
    LET at == IF choice < 0 THEN idx ELSE idx + 1
    IN  IF choice = 0 THEN [sizes EXCEPT ![idx + 1] = size]
        ELSE [i \in 1..(Len(sizes) - 1) |->
                IF i < at THEN sizes[i]
                ELSE IF i = at
                     THEN (IF i = idx + 1 THEN size ELSE sizes[i])
                          + (IF i + 1 = idx + 1 THEN size ELSE sizes[i + 1]) - HEADER
                ELSE sizes[i + 1]]

\* the leaf of the root that holds key without its entry for key
LeafWithout(pg, r, key) ==
    leafDelete(KidAt(pg, pg[r], nodeLookupLE(pg[r], key)),
               nodeLookupLE(KidAt(pg, pg[r], nodeLookupLE(pg[r], key)), key))

\* the sizes of the children of the root the merge rule asks for after the
\* Delete of key
RuleBytes(pg, r, key, limit) ==
    MergedBytes(KidBytes(pg, r), nodeLookupLE(pg[r], key), nbytes(LeafWithout(pg, r, key)),
                MergeChoice(pg, pg[r], nodeLookupLE(pg[r], key), LeafWithout(pg, r, key), limit))

\* a Delete under an internal root has just removed a key
DeletedUnderRoot ==
    /\ last'.op = "delete" /\ last'.res = "true"
    /\ pages' # pages
    /\ root # 0 /\ pages[root].btype = BN_NODE

\* C31 (as amended): a rewritten child is merged only when its size is at
\* most 1024 bytes (PAGE_SIZE/4); it is then merged with the left sibling if
\* the combined node fits in one page, otherwise with the right sibling if
\* that fits, otherwise not at all; a node of more than 1024 bytes is never
\* merged.
MergeRule ==
    [][DeletedUnderRoot =>
          KidBytes(pages', root') = RuleBytes(pages, root, last'.key, BT_PAGE_SIZE \div 4)]_vars

\* C31 as stated: a child of 1024 bytes or more is never merged.
MergeRuleBelow ==
    [][DeletedUnderRoot =>
          KidBytes(pages', root') = RuleBytes(pages, root, last'.key, BT_PAGE_SIZE \div 4 - 1)]_vars

\* a Delete is about to leave a leaf of exactly 1024 bytes, the rule merges
\* it with a sibling, and BT.Delete does so
MergeRuleWitness ==
    /\ ~panicked /\ root # 0 /\ pages[root].btype = BN_NODE
    /\ \E k \in MergeKeys :
          /\ k \in DOMAIN ref
          /\ nbytes(LeafWithout(pages, root, k)) = BT_PAGE_SIZE \div 4
          /\ MergeChoice(pages, pages[root], nodeLookupLE(pages[root], k),
                         LeafWithout(pages, root, k), BT_PAGE_SIZE \div 4) # 0
          /\ ~Delete(CTree, k).st.panic
          /\ KidBytes(Delete(CTree, k).st.pages, Delete(CTree, k).st.root)
                = RuleBytes(pages, root, k, BT_PAGE_SIZE \div 4)

\* ---------------------------------------------------------- balanced height
\* the depths at which the leaves under page p lie, p itself at depth d;
\* -1 stands for a pointer that leads to no page
RECURSIVE LeafDepths(_, _, _, _)
LeafDepths(pg, p, d, fuel) ==
    IF p \notin DOMAIN pg \/ fuel = 0 THEN { 0 - 1 }
    ELSE IF pg[p].btype = BN_LEAF THEN { d }
    ELSE UNION { LeafDepths(pg, getPtr(pg[p], i), d + 1, fuel - 1) :
                    i \in 0 .. nkeys(pg[p]) - 1 }

TreeDepths(pg, r) ==
    IF r = 0 THEN { 0 } ELSE LeafDepths(pg, r, 1, Cardinality(DOMAIN pg))

Balanced(pg, r) == Cardinality(TreeDepths(pg, r)) = 1

Height(pg, r) == CHOOSE d \in TreeDepths(pg, r) : TRUE

\* the pieces nodeSplit3 makes of the root scratch node of Insert(key, val)
RootPieces(st, key, val) ==
    Len(nodeSplit3(treeInsert(st, stGet(st, st.root), key, val).node))

\* an Insert into a non-empty tree came back
InsertedUnderRoot == last'.op = "add" /\ last'.res = "ok" /\ root # 0 /\ pages' # pages

\* the types of the two nodes nodeDelete hands to nodeMerge on Delete(key)
MergeSameType(pg, r, key) ==
    LET idx == nodeLookupLE(pg[r], key)
        dir == MergeChoice(pg, pg[r], idx, LeafWithout(pg, r, key), BT_PAGE_SIZE \div 4)
    IN  dir # 0 => KidAt(pg, pg[r], idx + dir).btype = LeafWithout(pg, r, key).btype

\* C32: balanced height.  In every tree the harness reaches all leaves lie
\* at the same depth, the two nodes of a merge have the same type, and an
\* Insert raises the height by exactly one when the root scratch node splits
\* into more than one piece and leaves it unchanged otherwise.
BalancedHeight ==
    [][ /\ ~panicked' => Balanced(pages', root')
        /\ InsertedUnderRoot =>
              Height(pages', root') =
                  Height(pages, root)
                    + (IF RootPieces(CTree, last'.key, last'.val) > 1 THEN 1 ELSE 0)
        /\ DeletedUnderRoot => MergeSameType(pages, root, last'.key) ]_vars

\* a leaf root that the next Insert splits: the tree becomes two levels high
BalancedHeightWitness ==
    /\ ~panicked /\ root # 0 /\ Height(pages, root) = 1
    /\ \E kv \in MergeInputs :
          /\ RootPieces(CTree, kv[1], kv[2]) > 1
          /\ ~Insert(CTree, kv[1], kv[2]).panic
          /\ Balanced(Insert(CTree, kv[1], kv[2]).pages, Insert(CTree, kv[1], kv[2]).root)
          /\ Height(Insert(CTree, kv[1], kv[2]).pages, Insert(CTree, kv[1], kv[2]).root) = 2

\* ------------------------------------------------------ free-list counters
\* C33: the counters of the free list stay ordered.  After any sequence of
\* setMaxSeq, PushTail and PopHead, headSeq <= maxSeq <= tailSeq, and a
\* PopHead on a list with headSeq = maxSeq returns 0 and changes no counter
\* and no page.
CountersOrdered ==
    /\ db.free.headSeq <= db.free.maxSeq
    /\ db.free.maxSeq <= db.free.tailSeq
    /\ (~panicked /\ db.free.headSeq = db.free.maxSeq) =>
           PopHead(KVTree) = << KVTree, 0 >>

\* entries were pushed, a snapshot let some of them be popped, more were
\* pushed after it, and PopHead has used the snapshot up
CountersOrderedWitness ==
    /\ ~panicked /\ last.op = "pop" /\ last.res = "ok"
    /\ db.free.headSeq > 0
    /\ db.free.headSeq = db.free.maxSeq
    /\ db.free.maxSeq < db.free.tailSeq

\* --------------------------------------------------------- free-list chain
\* following the next links, read as flPop reads them, from page p to the
\* tail page of the list
RECURSIVE ChainReaches(_, _, _)
ChainReaches(st, p, fuel) ==
    IF p = st.free.tailPage THEN TRUE
    ELSE IF fuel = 0 \/ pageRead(st, p).bad THEN FALSE
    ELSE ChainReaches(st, LGetNext(pageRead(st, p)), fuel - 1)

\* C34: the chain of the free list is connected.  After any sequence of
\* PushTail and PopHead the next links lead from the head page to the tail
\* page, and flPop does not fail on its next head page.
ChainConnected ==
    ~panicked =>
        /\ ChainReaches(KVTree, db.free.headPage, Len(file) + Len(db.temp) + 1)
        /\ ~flPop(KVTree).st.panic

\* ------------------------------------------------------------ the meta page
\* the running Set or Del has released a page to the free list
Pushed == op.name \in { "set", "del" } /\ db.free.tailSeq > op.db.free.tailSeq

\* C35: the free list never touches the meta page.  A PushTail of a Set or
\* Del, the first one on a new database included, finds a tail page other
\* than page 0 and makes no copy of page 0, a pop reads a head page other than
\* page 0, and the page number the next append hands out is not 0.
MetaPageUntouched ==
    (pc # "closed" /\ ~panicked) =>
        /\ Pushed => op.db.free.tailPage # 0
        /\ 0 \notin DOMAIN db.updates
        /\ db.free.headSeq # db.free.maxSeq => db.free.headPage # 0
        /\ pageAppend(KVTree, ZeroPage)[2] # 0

====
